---- MODULE Spec2Model ----
(***************************************************************************)
(* A model of unstately (include/unstately/unstately.h): State,            *)
(* StateMachine, StaticStateAllocator and UniqueStateAllocator, together   *)
(* with the turnstile application of examples/turnstile/main.cpp.          *)
(*                                                                         *)
(* State instances live in `heap`: under the static policy one storage per *)
(* concrete type (get_state_instance), under the unique policy one heap    *)
(* object per std::make_unique.  A pointer is an object id, 0 is nullptr.  *)
(* Every operation of StateMachine is one action, which runs the whole     *)
(* operation; `calls` is the sequence of statements with an observable     *)
(* effect that it executed: the hook calls (entry, handle, exit), the      *)
(* calls a hook makes on the context, make_state_ptr, the destruction of a *)
(* state and the assignment to state_.  The library is single-threaded and *)
(* not reentrant: the operation returns to its caller (Return) before the  *)
(* next one starts.                                                        *)
(***************************************************************************)
EXTENDS Naturals, Sequences, FiniteSets

VARIABLES
    policy,     \* the allocator A of State<A, C, EE...>: "unique" or "static"
    heap,       \* the state instances, by object id
    sm,         \* the StateMachine objects, by the storage that holds them
    calls,      \* what the operation that is returning executed, in order
    op,         \* that operation, and its receiver as it was when called
    twin        \* the same application built with UniqueStateAllocator, where
                \* the two builds are run side by side

vars == <<policy, heap, sm, calls, op, twin>>

\* ---------------------------------------------------------------- bounds

\* StateMachine objects that exist at the same time.
NumEngines == 2
\* request_transition calls one handle invocation makes, at most.
MaxReq == 2
\* The largest constructor argument a request passes.
MaxVal == 1

Engines == 1..NumEngines
\* Enough objects for every engine's current state and pending request, and
\* for the temporaries of the one operation that is running.
HeapSize == 2 * NumEngines + 2
ObjIds == 1..HeapSize

\* ------------------------------------------------- application-side types

\* The concrete state types and the event types EE... of the application.
Types == {"Locked", "Unlocked"}
Events == {"CoinInserted", "ArmPushed"}
\* Constructor arguments of a concrete state.
DefaultArg == 0
Policies == {"unique", "static"}
\* The Context the application gives to the constructor of its engine, and
\* the number of values a Context takes.
InitialContext == 0
ContextValues == 3

\* A request_transition<T>(args...) call.
Req(T, v) == [type |-> T, val |-> v]
\* What one invocation of a user hook does: the context methods it calls, then
\* the request_transition calls it makes.
Behaviour(fx, reqs) == [fx |-> fx, reqs |-> reqs]
Nothing == Behaviour(<<>>, <<>>)

RECURSIVE SeqsUpTo(_, _)
SeqsUpTo(S, n) ==
    IF n = 0 THEN {<<>>}
    ELSE LET shorter == SeqsUpTo(S, n - 1)
         IN shorter \cup {Append(s, x) : s \in {t \in shorter : Len(t) = n - 1}, x \in S}

Requests == {Req(T, DefaultArg) : T \in Types}
\* A handler is arbitrary user code: it makes up to MaxReq requests.
HandleBehaviours == {Behaviour(<<>>, s) : s \in SeqsUpTo(Requests, MaxReq)}
\* Requests that pass constructor arguments, and the handlers that make them.
Vals == 0..MaxVal
ValuedRequests == {Req(T, v) : T \in Types, v \in Vals}
ValuedBehaviours == {Behaviour(<<>>, s) : s \in SeqsUpTo(ValuedRequests, MaxReq)}
\* entry and exit are meant not to request a transition, but nothing stops them.
HookBehaviours == {Behaviour(<<>>, s) : s \in SeqsUpTo(Requests, 1)}

\* ---------------------------------------------------------------- objects

\* Storage that holds no state instance.
Free ==
    [st |-> "free", type |-> "-", val |-> 0, next_state_ |-> 0, by |-> "none",
     phase |-> "new"]

\* A StateMachine-sized storage that holds no engine.
NoEngine == [st |-> "none", state_ |-> 0, moved |-> FALSE, context_ |-> 0]

\* One executed statement of the operation m. obj is the state instance it acts
\* on, with its concrete type and value at that moment; eng is the engine whose
\* context_ the hook receives, and ctx the value of that context at that moment.
Call(k, o, m, arg, e) ==
    [k |-> k, obj |-> o, type |-> m.h[o].type, val |-> m.h[o].val, arg |-> arg,
     eng |-> e, ctx |-> m.c]

\* The slot of StaticStateAllocator::get_state_instance<T>.
StaticId(T) == IF T = "Locked" THEN 1 ELSE 2

\* static T instance{}: constructed on the first call, the same object after.
get_state_instance(h, T) ==
    IF h[StaticId(T)].st = "live" THEN h
    ELSE [h EXCEPT ![StaticId(T)] =
              [Free EXCEPT !.st = "live", !.type = T, !.val = DefaultArg]]

\* A faulty static allocator that leaves the instance as it was when the type
\* is requested again.
move_assign_keeps_value(h, id, v) ==
    [h EXCEPT ![id].next_state_ = 0, ![id].by = "none"]

\* A faulty State whose move assignment leaves next_state_ as it was.
move_assign_keeps_slot(h, id, v) == [h EXCEPT ![id].val = v]

\* instance = T{args...}: the move assignment of the concrete state, and of its
\* base State, which takes next_state_ from the temporary, where it is empty.
move_assign(h, id, v) ==
    [h EXCEPT ![id].val = v, ![id].next_state_ = 0, ![id].by = "none"]

\* make_state_ptr, called with the constructor arguments v, returns the pointer
\* id to the instance it made.
made(m, id, v) ==
    [m EXCEPT !.log = Append(@, Call("make", id, m, v, 0)), !.p = id]

\* A faulty static allocator that returns the instance without assigning the
\* new value to it.
Static_make_without_assignment(m, T, v) ==
    made([m EXCEPT !.h = get_state_instance(m.h, T)], StaticId(T), v)

\* StaticStateAllocator::make_state_ptr<T>(args...)
Static_make_state_ptr(m, T, v) ==
    made([m EXCEPT !.h = move_assign(get_state_instance(m.h, T), StaticId(T), v)],
         StaticId(T), v)

\* operator new: the lowest free address.
allocate(h) ==
    CHOOSE i \in ObjIds :
        /\ h[i].st = "free"
        /\ \A j \in ObjIds : h[j].st = "free" => i <= j

\* A faulty unique allocator that default-constructs the state.
Unique_make_default(m, T, v) ==
    made([m EXCEPT !.h[allocate(m.h)] =
              [Free EXCEPT !.st = "live", !.type = T, !.val = DefaultArg]],
         allocate(m.h), v)

\* UniqueStateAllocator::make_state_ptr<T>(args...): std::make_unique<T>.
Unique_make_state_ptr(m, T, v) ==
    made([m EXCEPT !.h[allocate(m.h)] =
              [Free EXCEPT !.st = "live", !.type = T, !.val = v]],
         allocate(m.h), v)

\* Allocator::template make_state_ptr<T>(args...)
make_state_ptr(m, T, v) ==
    IF m.pol = "unique" THEN Unique_make_state_ptr(m, T, v)
    ELSE Static_make_state_ptr(m, T, v)

\* What std::unique_ptr does to the instance it owns when it is reset or
\* destroyed: ~State runs, then the member next_state_ destroys what it owns.
RECURSIVE delete(_, _)
delete(m, o) ==
    IF o = 0 THEN m
    ELSE delete([m EXCEPT !.log = Append(@, Call("destroy", o, m, "-", 0)),
                          !.h[o] = Free],
                m.h[o].next_state_)

\* A faulty owning pointer that never deletes what it held.
release_leaks(m, old) == m

\* Ptr::operator=(Ptr&&) and ~Ptr for the instance the pointer held before:
\* std::unique_ptr deletes it, a raw pointer leaves it alone.
release(m, old) == IF m.pol = "unique" THEN delete(m, old) ELSE m

\* A faulty request_transition that keeps the first request of a hook and
\* drops the later ones.
set_next_state_first_wins(m, self, who) ==
    IF m.h[self].next_state_ = 0
    THEN [m EXCEPT !.h[self].next_state_ = m.p, !.h[self].by = who]
    ELSE release(m, IF m.p = self THEN 0 ELSE m.p)

\* A faulty request_transition whose slot does not own what it points to: the
\* instance it held is left alone.
set_next_state_leaks(m, self, who) ==
    [m EXCEPT !.h[self].next_state_ = m.p, !.h[self].by = who]

\* next_state_ = <the pointer make_state_ptr returned, m.p>, in hook `who`.
set_next_state_(m, self, who) ==
    release([m EXCEPT !.h[self].next_state_ = m.p, !.h[self].by = who],
            m.h[self].next_state_)

\* State::request_transition<T>(args...), called on `self` from hook `who`.
request_transition(m, self, r, who) ==
    set_next_state_(make_state_ptr(m, r.type, r.val), self, who)

RECURSIVE requests(_, _, _, _)
requests(m, self, reqs, who) ==
    IF reqs = <<>> THEN m
    ELSE requests(request_transition(m, self, Head(reqs), who), self, Tail(reqs), who)

\* What a method of the Context does to its value: touch changes it, the
\* methods of the turnstile's Context only print.
Effect(method, c) == IF method = "touch" THEN (c + 1) % ContextValues ELSE c

context_logged(m, self, method, e) ==
    [m EXCEPT !.log = Append(@, Call("context", self, m, method, e))]

\* The calls a hook makes on the Context& it was given, the context_ of e.
RECURSIVE context_calls(_, _, _, _)
context_calls(m, self, fx, e) ==
    IF fx = <<>> THEN m
    ELSE context_calls(context_logged([m EXCEPT !.c = Effect(Head(fx), @)], self, Head(fx), e),
                       self, Tail(fx), e)

\* The virtual call of hook k on `self`: entry(c), exit(c) or handle(c, ev) with
\* the context_ of engine e.
called(m, k, self, arg, e) ==
    [m EXCEPT !.log = Append(@, Call(k, self, m, arg, e)),
              !.h[self].phase = IF k = "handle" THEN @
                                ELSE IF k = "entry" THEN "entered" ELSE "exited"]

\* One invocation of a hook; b is what the user's code does in it.
hook(m, k, self, arg, e, b) ==
    requests(context_calls(called(m, k, self, arg, e), self, b.fx, e), self, b.reqs, k)

\* A faulty react that returns std::move(next_state_): that empties a
\* std::unique_ptr and leaves a raw pointer as it was.
exchange_by_move(m, self) ==
    IF m.pol = "unique"
    THEN [m EXCEPT !.p = m.h[self].next_state_, !.pby = m.h[self].by,
                   !.h[self].next_state_ = 0, !.h[self].by = "none"]
    ELSE [m EXCEPT !.p = m.h[self].next_state_, !.pby = m.h[self].by]

\* std::exchange(next_state_, Ptr{}): the result is in p, and pby tells which
\* hook had filled the slot.
exchange(m, self) ==
    [m EXCEPT !.p = m.h[self].next_state_,
              !.pby = m.h[self].by,
              !.h[self].next_state_ = 0,
              !.h[self].by = "none"]

\* State::react<E>: EventHandlerUnit<C, E>::handle, then the exchange.
react(m, self, ev, e, b) == exchange(hook(m, "handle", self, ev, e, b), self)

\* A faulty engine that value-initialises its context_ when it changes state.
assign_state_resets_context(m, e, cur, next_state, by) ==
    release([m EXCEPT !.log = Append(@, Call("assign", next_state, m, by, e)),
                      !.c = InitialContext], cur)

\* state_ = std::move(next_state), which releases the instance state_ held.
assign_state_(m, e, cur, next_state, by) ==
    release([m EXCEPT !.log = Append(@, Call("assign", next_state, m, by, e))], cur)

\* What dispatch returns with: p is the engine's state_.
current(m, state) == [m EXCEPT !.p = state]

\* A faulty engine that empties the pending slot of the state it has entered,
\* dropping what entry requested.
dropped(m, self) ==
    release([m EXCEPT !.h[self].next_state_ = 0, !.h[self].by = "none"],
            IF m.h[self].next_state_ = self THEN 0 ELSE m.h[self].next_state_)
enter_dropping_requests(m, e, state, app) ==
    current(dropped(hook(m, "entry", state, "-", e, app.entry[m.h[state].type]), state),
            state)

\* state_->entry(context_)
enter(m, e, state, app) ==
    current(hook(m, "entry", state, "-", e, app.entry[m.h[state].type]), state)

\* A faulty transition that does not call exit on the state it leaves.
transition_without_exit(m, e, cur, next_state, by, app) ==
    enter(assign_state_(m, e, cur, next_state, by), e, next_state, app)

\* A faulty dispatch that looks at the pending slot of the state it has entered
\* and goes on to what it finds there.
second_transition(m, e, state, app) ==
    IF m.p = 0 THEN current(m, state)
    ELSE enter(assign_state_(hook(m, "exit", state, "-", e, app.exit[m.h[state].type]),
                             e, state, m.p, m.pby),
               e, m.p, app)
transition_chained(m, e, cur, next_state, by, app) ==
    second_transition(
        exchange(enter(assign_state_(hook(m, "exit", cur, "-", e, app.exit[m.h[cur].type]),
                                     e, cur, next_state, by),
                       e, next_state, app),
                 next_state),
        e, next_state, app)

\* The body of the if of StateMachine::dispatch, when react returned m.p.
transition(m, e, cur, next_state, by, app) ==
    enter(assign_state_(hook(m, "exit", cur, "-", e, app.exit[m.h[cur].type]),
                        e, cur, next_state, by),
          e, next_state, app)

\* A faulty dispatch that leaves and re-enters the current state when the
\* handler asked for nothing.
if_next_state_reenters(m, e, cur, app) ==
    IF m.p = 0
    THEN enter(hook(m, "exit", cur, "-", e, app.exit[m.h[cur].type]), e, cur, app)
    ELSE transition(m, e, cur, m.p, m.pby, app)

\* if (auto next_state = ...) { ... }
if_next_state(m, e, cur, app) ==
    IF m.p = 0 THEN current(m, cur)
    ELSE transition(m, e, cur, m.p, m.pby, app)

\* A faulty dispatch that hands the event to the state it has just entered too.
redelivered(m, e, cur, ev) ==
    IF m.p = cur THEN m ELSE current(called(m, "handle", m.p, ev, e), m.p)
dispatch_redelivers(m, e, cur, ev, app) ==
    redelivered(if_next_state(react(m, cur, ev, e, app.handle[m.h[cur].type][ev]),
                              e, cur, app),
                e, cur, ev)

\* StateMachine::dispatch<E> on engine e, whose state_ is cur. app gives the
\* behaviour of the user's hooks by concrete type (and event type).
dispatch(m, e, cur, ev, app) ==
    if_next_state(react(m, cur, ev, e, app.handle[m.h[cur].type][ev]), e, cur, app)

\* A faulty constructor that does not enter the initial state.
initial_entry_skipped(m, e, app) == current(m, m.p)

\* StateMachine(Context&&, T&&): state_ from make_state_ptr, then entry.
initial_entry(m, e, app) == enter(m, e, m.p, app)

constructor(m, e, T, app) == initial_entry(make_state_ptr(m, T, DefaultArg), e, app)

\* ~StateMachine(): exit on the current state if there is one; then the member
\* state_ is destroyed.
destructor(m, e, cur, app) ==
    IF cur = 0 THEN m
    ELSE release(hook(m, "exit", cur, "-", e, app.exit[m.h[cur].type]), cur)

\* The machine state an operation starts from.
Start ==
    [h |-> heap, log |-> <<>>, p |-> 0, pby |-> "none", pol |-> policy,
     c |-> InitialContext]
\* The machine state an operation of engine e starts from: c is its context_.
Called(e) == [Start EXCEPT !.c = sm[e].context_]

\* Every hook of every type behaves the same way during one operation.
App(bh, bx, bn) ==
    [handle |-> [T \in Types |-> [ev \in Events |-> bh]], exit |-> [T \in Types |-> bx],
     entry |-> [T \in Types |-> bn]]

\* The operation kind on engine e (with the event ev, or from the engine src),
\* and e's state_, its context_ and whether e had been moved from when it was
\* called.
Op(kind, e, ev, src) ==
    [kind |-> kind, eng |-> e, ev |-> ev, src |-> src, cur |-> sm[e].state_,
     moved |-> sm[e].moved, ctx |-> sm[e].context_]

\* An operation ends: m is what it did, engines the StateMachine objects after.
Returns(m, engines, o) ==
    /\ heap' = m.h
    /\ calls' = m.log
    /\ sm' = engines
    /\ op' = o
    /\ UNCHANGED <<policy, twin>>

\* ---------------------------------------------------------------- actions

\* No operation is running.
Idle ==
    [kind |-> "none", eng |-> 0, ev |-> "-", src |-> 0, cur |-> 0, moved |-> FALSE,
     ctx |-> 0]

\* No second build is run.
NoTwin == [h |-> <<>>, state_ |-> 0, log |-> <<>>, hooked |-> FALSE]

Init ==
    /\ policy \in Policies
    /\ twin = NoTwin
    /\ heap = [o \in ObjIds |-> Free]
    /\ sm = [e \in Engines |-> NoEngine]
    /\ calls = <<>>
    /\ op = Idle

\* The operation returns to its caller.
Return ==
    /\ op # Idle
    /\ op' = Idle
    /\ calls' = <<>>
    /\ UNCHANGED <<policy, heap, sm, twin>>

\* c0 is the Context the constructor was given.
Constructed(m, e, c0) ==
    Returns(m, [sm EXCEPT ![e] = [st |-> "alive", state_ |-> m.p, moved |-> FALSE,
                                  context_ |-> m.c]],
            [Op("construct", e, "-", 0) EXCEPT !.ctx = c0])

\* StateMachine(Context&& context, T&&) in storage e, context being c0.
ConstructFrom(e, T, app, c0) ==
    /\ op = Idle
    /\ sm[e].st = "none"
    /\ Constructed(constructor([Start EXCEPT !.c = c0], e, T, app), e, c0)

\* StateMachine(Context{}, T&&) in storage e.
ConstructWith(e, T, app) == ConstructFrom(e, T, app, InitialContext)

Dispatched(m, e, ev) ==
    Returns(m, [sm EXCEPT ![e].state_ = m.p, ![e].context_ = m.c],
            Op("dispatch", e, ev, 0))

\* StateMachine::dispatch(ev) on engine e. A moved-from engine is not
\* dispatched to: under the unique policy its state_ is empty and the call
\* would dereference a null pointer.
DispatchWith(e, ev, app) ==
    /\ op = Idle
    /\ sm[e].st = "alive"
    /\ ~sm[e].moved
    /\ sm[e].state_ # 0
    /\ Dispatched(dispatch(Called(e), e, sm[e].state_, ev, app), e, ev)

\* Ptr(Ptr&&) and what it leaves in the source: std::unique_ptr empties it, a
\* raw pointer is copied.
moved_from(p) == IF policy = "unique" THEN 0 ELSE p

\* The engines after dst took the state_ of src.
moved_to(dst, src) ==
    [sm EXCEPT ![dst] = [st |-> "alive", state_ |-> sm[src].state_,
                         moved |-> sm[src].moved, context_ |-> sm[src].context_],
               ![src].state_ = moved_from(sm[src].state_),
               ![src].moved = TRUE]

\* StateMachine(StateMachine&&) = default: storage dst is built from engine src.
MoveConstruct(dst, src) ==
    /\ op = Idle
    /\ dst # src
    /\ sm[dst].st = "none"
    /\ sm[src].st = "alive"
    /\ Returns(Start, moved_to(dst, src), Op("move_construct", dst, "-", src))

\* StateMachine& operator=(StateMachine&&) = default: context_, then state_,
\* whose assignment releases the instance dst held.
MoveAssign(dst, src) ==
    /\ op = Idle
    /\ dst # src
    /\ sm[dst].st = "alive"
    /\ sm[src].st = "alive"
    /\ Returns(release(Start, sm[dst].state_), moved_to(dst, src),
               Op("move_assign", dst, "-", src))

\* ~StateMachine() of engine e.
DestroyWith(e, app) ==
    /\ op = Idle
    /\ sm[e].st = "alive"
    /\ Returns(destructor(Called(e), e, sm[e].state_, app),
               [sm EXCEPT ![e] = NoEngine], Op("destroy", e, "-", 0))

\* Under the static policy, concrete type T is the current state of an engine
\* other than e (and other than the engines e was moved to or from, which share
\* e's state). The static policy has one instance per type, so an application
\* that keeps to the library's documentation does not give T to e then.
InUseElsewhere(e, T) ==
    /\ policy = "static"
    /\ \E f \in Engines \ {e} :
          /\ sm[f].st = "alive"
          /\ sm[f].state_ # 0
          /\ sm[f].state_ # sm[e].state_
          /\ heap[sm[f].state_].type = T

\* The operations of an application that keeps to the documentation: handlers
\* are arbitrary, entry and exit hooks request no transition ("Application-
\* defined states shall call this method inside their EventHandlerUnit::handle
\* implementations"), and two engines do not share a static state.
Construct ==
    \E e \in Engines, T \in Types :
        /\ ~InUseElsewhere(e, T)
        /\ ConstructWith(e, T, App(Nothing, Nothing, Nothing))

Dispatch ==
    \E e \in Engines, ev \in Events, bh \in HandleBehaviours :
        /\ \A i \in DOMAIN bh.reqs : ~InUseElsewhere(e, bh.reqs[i].type)
        /\ DispatchWith(e, ev, App(bh, Nothing, Nothing))

Move == \E dst, src \in Engines : MoveConstruct(dst, src)

Assign == \E dst, src \in Engines : MoveAssign(dst, src)

Destroy == \E e \in Engines : DestroyWith(e, App(Nothing, Nothing, Nothing))

Next == Construct \/ Dispatch \/ Move \/ Assign \/ Destroy \/ Return

Spec == Init /\ [][Next]_vars

\* One engine of an application that does what the library does not prevent:
\* its entry and exit hooks request transitions too.
ConstructHooks ==
    \E T \in Types, bn \in HookBehaviours : ConstructWith(1, T, App(Nothing, Nothing, bn))

DispatchHooks ==
    \E ev \in Events, bh \in HandleBehaviours, bx, bn \in HookBehaviours :
        DispatchWith(1, ev, App(bh, bx, bn))

DestroyHooks == \E bx \in HookBehaviours : DestroyWith(1, App(Nothing, bx, Nothing))

NextHooks == ConstructHooks \/ DispatchHooks \/ DestroyHooks \/ Return

SpecHooks == Init /\ [][NextHooks]_vars

\* One engine whose handlers pass constructor arguments to the states they
\* request.
ConstructValues == \E T \in Types : ConstructWith(1, T, App(Nothing, Nothing, Nothing))

DispatchValues ==
    \E ev \in Events, bh \in ValuedBehaviours :
        DispatchWith(1, ev, App(bh, Nothing, Nothing))

DestroyValues == DestroyWith(1, App(Nothing, Nothing, Nothing))

NextValues == ConstructValues \/ DispatchValues \/ DestroyValues \/ Return

SpecValues == Init /\ [][NextValues]_vars

\* Two engines whose hooks change the context they are given.
ContextBehaviours ==
    {Behaviour(fx, s) : fx \in {<<>>, <<"touch">>}, s \in SeqsUpTo(Requests, 1)}
ContextHookBehaviours == {Behaviour(fx, <<>>) : fx \in {<<>>, <<"touch">>}}

ConstructContext ==
    \E e \in 1..2, T \in Types, bn \in ContextHookBehaviours, c0 \in 0..(ContextValues - 1) :
        /\ ~InUseElsewhere(e, T)
        /\ ConstructFrom(e, T, App(Nothing, Nothing, bn), c0)

DispatchContext ==
    \E e \in 1..2, ev \in Events, bh \in ContextBehaviours,
       bx, bn \in ContextHookBehaviours :
        /\ \A i \in DOMAIN bh.reqs : ~InUseElsewhere(e, bh.reqs[i].type)
        /\ DispatchWith(e, ev, App(bh, bx, bn))

DestroyContext ==
    \E e \in 1..2, bx \in ContextHookBehaviours : DestroyWith(e, App(Nothing, bx, Nothing))

NextContext == ConstructContext \/ DispatchContext \/ DestroyContext \/ Return

SpecContext == Init /\ [][NextContext]_vars

\* --------------------------------------------------------------- turnstile

\* The turnstile with a faulty Unlocked::handle(CoinInserted), which locks the
\* arm again.
Turnstile_coin_relocks ==
    [entry |-> [T \in Types |->
                  IF T = "Locked" THEN Behaviour(<<"lock_arm">>, <<>>)
                  ELSE Behaviour(<<"unlock_arm">>, <<>>)],
     exit |-> [T \in Types |-> Nothing],
     handle |-> [T \in Types |-> [ev \in Events |->
                  IF T = "Locked" /\ ev = "ArmPushed"
                  THEN Behaviour(<<"beep">>, <<>>)
                  ELSE Behaviour(<<>>, <<Req(IF T = "Locked" THEN "Unlocked" ELSE "Locked",
                                             DefaultArg)>>)]]]

\* Locked and Unlocked of the turnstile example: Locked::entry locks the arm,
\* Unlocked::entry unlocks it, both exit hooks are empty; Locked requests
\* Unlocked on CoinInserted and beeps on ArmPushed, Unlocked ignores
\* CoinInserted and requests Locked on ArmPushed.
Turnstile ==
    [entry |-> [T \in Types |->
                  IF T = "Locked" THEN Behaviour(<<"lock_arm">>, <<>>)
                  ELSE Behaviour(<<"unlock_arm">>, <<>>)],
     exit |-> [T \in Types |-> Nothing],
     handle |-> [T \in Types |-> [ev \in Events |->
                  IF T = "Locked"
                  THEN IF ev = "CoinInserted"
                       THEN Behaviour(<<>>, <<Req("Unlocked", DefaultArg)>>)
                       ELSE Behaviour(<<"beep">>, <<>>)
                  ELSE IF ev = "CoinInserted"
                       THEN Nothing
                       ELSE Behaviour(<<>>, <<Req("Locked", DefaultArg)>>)]]]

\* auto sm = StateMachine{..., Locked{...}}
TurnstileConstruct == \E e \in Engines : ConstructWith(e, "Locked", Turnstile)

\* std::visit([&](auto&& e) { sm.dispatch(e); }, event)
TurnstileDispatch == \E e \in Engines, ev \in Events : DispatchWith(e, ev, Turnstile)

TurnstileDestroy == \E e \in Engines : DestroyWith(e, Turnstile)

NextTurnstile ==
    TurnstileConstruct \/ TurnstileDispatch \/ Move \/ Assign \/ TurnstileDestroy \/ Return

SpecTurnstile == Init /\ [][NextTurnstile]_vars

\* ------------------------------------------------------------ observations

IsHook(c) == c.k \in {"entry", "handle", "exit"}
IsStep(c) == c.k \in {"entry", "handle", "exit", "assign"}
Kinds(log) == [i \in DOMAIN log |-> log[i].k]
Objs(log) == [i \in DOMAIN log |-> log[i].obj]
\* The hook calls of the operation, and the hook calls with the assignment to
\* state_ among them.
HookCalls(log) == SelectSeq(log, IsHook)
Steps(log) == SelectSeq(log, IsStep)
Count(log, k) == Cardinality({i \in DOMAIN log : log[i].k = k})
CountOn(log, k, o) == Cardinality({i \in DOMAIN log : log[i].k = k /\ log[i].obj = o})

\* The places in a dispatch's log where the handler called request_transition:
\* the make_state_ptr calls before the exit, the assignment and the entry.
HandlerRequests(log) ==
    {i \in DOMAIN log :
        /\ log[i].k = "make"
        /\ \A j \in 1..i : log[j].k \notin {"exit", "assign", "entry"}}
Last(S) == CHOOSE i \in S : \A j \in S : j <= i
First(S) == CHOOSE i \in S : \A j \in S : i <= j

\* Some engine holds o as its state_.
IsCurrent(engines, o) ==
    \E e \in Engines : engines[e].st = "alive" /\ engines[e].state_ = o

\* ------------------------------------------------------------------ claims

\* C1: in a dispatch whose handler (of the current state A) requests a
\* transition to B, what the engine does after A.handle is exactly A.exit,
\* then state_ = B, then B.entry, each once and in this order, with no handle
\* call in between; B is the current state when dispatch returns.
C1_ExitSwapEntry ==
    (op.kind = "dispatch" /\ HandlerRequests(calls) # {}) =>
        /\ Kinds(Steps(calls)) = <<"handle", "exit", "assign", "entry">>
        /\ Objs(Steps(calls)) =
               <<op.cur, op.cur, calls[Last(HandlerRequests(calls))].obj,
                 calls[Last(HandlerRequests(calls))].obj>>
        /\ sm[op.eng].state_ = calls[Last(HandlerRequests(calls))].obj

\* C1's case: a dispatch whose handler requested a state that is another
\* instance than the current one, and that is now current.
C1_Witness ==
    /\ op.kind = "dispatch"
    /\ HandlerRequests(calls) # {}
    /\ sm[op.eng].state_ # op.cur
    /\ Count(calls, "exit") = 1

\* C2 as stated: in a dispatch whose handler makes no request, on a current
\* state whose pending request (if any) was not made by its entry hook, neither
\* exit nor entry is called and the current state stays the same instance.
C2_AsStated ==
    [][(/\ op'.kind = "dispatch"
        /\ HandlerRequests(calls') = {}
        /\ heap[op'.cur].by # "entry")
       => (/\ Kinds(HookCalls(calls')) = <<"handle">>
           /\ sm'[op'.eng].state_ = op'.cur)]_vars

\* C2, amended: in a dispatch whose handler makes no request, on a current
\* state whose pending-transition slot is empty when dispatch is called (no
\* request of an entry or an exit hook is waiting in it), neither exit nor
\* entry is called and the current state stays the same instance.
C2_NoRequestNoHooks ==
    [][(/\ op'.kind = "dispatch"
        /\ HandlerRequests(calls') = {}
        /\ heap[op'.cur].next_state_ = 0)
       => (/\ Kinds(HookCalls(calls')) = <<"handle">>
           /\ sm'[op'.eng].state_ = op'.cur
           /\ heap'[op'.cur].st = "live")]_vars

\* C2's case: a dispatch that did nothing but call handle, on a state that is
\* still current.
C2_Witness ==
    /\ op.kind = "dispatch"
    /\ Kinds(calls) = <<"handle">>
    /\ sm[op.eng].state_ = op.cur
    /\ heap[op.cur].st = "live"

\* C3: whenever an instance becomes current, as the initial state of the
\* constructor or as the target of a transition, entry is called on it exactly
\* once, directly after it became current and before the operation returns; no
\* other operation calls entry, so the current state of an engine has had its
\* entry before any handle or exit can reach it.
C3_EntryOnceOnBecomingCurrent ==
    /\ op.kind = "construct" =>
           /\ Kinds(calls) = <<"make", "entry">>
           /\ Objs(calls) = <<sm[op.eng].state_, sm[op.eng].state_>>
    /\ (op.kind = "dispatch" /\ Count(calls, "assign") > 0) =>
           /\ Count(calls, "assign") = 1
           /\ Count(calls, "entry") = 1
           /\ Kinds(Steps(calls))[Len(Steps(calls)) - 1] = "assign"
           /\ Kinds(Steps(calls))[Len(Steps(calls))] = "entry"
           /\ Objs(Steps(calls))[Len(Steps(calls)) - 1] = sm[op.eng].state_
           /\ Objs(Steps(calls))[Len(Steps(calls))] = sm[op.eng].state_
    /\ (op.kind \notin {"construct", "dispatch"} \/ Count(calls, "assign") = 0) =>
           \/ op.kind = "construct"
           \/ Count(calls, "entry") = 0
    /\ \A e \in Engines :
           (sm[e].st = "alive" /\ sm[e].state_ # 0) =>
               /\ heap[sm[e].state_].st = "live"
               /\ heap[sm[e].state_].phase # "new"

\* C3's case: the constructor has made the initial state and entered it.
C3_Witness ==
    /\ op.kind = "construct"
    /\ Len(calls) = 2
    /\ calls[2].k = "entry"
    /\ calls[2].obj = sm[op.eng].state_
    /\ heap[sm[op.eng].state_].phase = "entered"

\* C4: when a handler requests X and then Y in one handle call, the dispatch
\* installs Y; entry is called once on Y and never on X, under either policy.
C4_LastRequestWins ==
    (/\ op.kind = "dispatch"
     /\ Cardinality(HandlerRequests(calls)) = 2
     /\ calls[First(HandlerRequests(calls))].obj # calls[Last(HandlerRequests(calls))].obj)
    => (/\ sm[op.eng].state_ = calls[Last(HandlerRequests(calls))].obj
        /\ heap[sm[op.eng].state_].type = calls[Last(HandlerRequests(calls))].type
        /\ Count(calls, "entry") = 1
        /\ CountOn(calls, "entry", calls[Last(HandlerRequests(calls))].obj) = 1
        /\ CountOn(calls, "entry", calls[First(HandlerRequests(calls))].obj) = 0)

\* C4's case: under the static policy a handler has requested two different
\* states, and the engine has moved on.
C4_Witness ==
    /\ policy = "static"
    /\ op.kind = "dispatch"
    /\ Cardinality(HandlerRequests(calls)) = 2
    /\ calls[First(HandlerRequests(calls))].type # calls[Last(HandlerRequests(calls))].type
    /\ Count(calls, "entry") = 1

\* C5: the destructor of an engine that has a current state calls exit on it
\* exactly once and no other hook; the destructor of a moved-from engine calls
\* no hook; under either policy.
C5_DestructorExit ==
    op.kind = "destroy" =>
        IF op.moved THEN HookCalls(calls) = <<>>
        ELSE op.cur # 0 =>
                 /\ Kinds(HookCalls(calls)) = <<"exit">>
                 /\ HookCalls(calls)[1].obj = op.cur

\* C6: every dispatch calls handle exactly once, first of all, on the state
\* that is current when it is called, with the event it was given and the
\* context of its engine; no other operation calls handle.
C6_HandleOnceFirst ==
    /\ op.kind = "dispatch" =>
           /\ Len(calls) >= 1
           /\ calls[1].k = "handle"
           /\ calls[1].obj = op.cur
           /\ calls[1].arg = op.ev
           /\ calls[1].eng = op.eng
           /\ Count(calls, "handle") = 1
    /\ op.kind # "dispatch" => Count(calls, "handle") = 0

\* C6's case: a dispatch of ArmPushed that went on to a transition.
C6_Witness ==
    /\ op.kind = "dispatch"
    /\ op.ev = "ArmPushed"
    /\ calls[1].k = "handle"
    /\ Count(calls, "exit") = 1
    /\ Count(calls, "entry") = 1

\* The last of entry ("entered") and exit ("exited") on instance o before place
\* i + 1 of the log of an operation that started with the heap h; an instance
\* that was made since has had neither ("new").
RECURSIVE PhaseAt(_, _, _, _)
PhaseAt(h, log, o, i) ==
    IF i = 0 THEN h[o].phase
    ELSE IF log[i].obj = o /\ log[i].k = "entry" THEN "entered"
    ELSE IF log[i].obj = o /\ log[i].k = "exit" THEN "exited"
    ELSE IF log[i].obj = o /\ log[i].k = "destroy" THEN "new"
    ELSE PhaseAt(h, log, o, i - 1)

\* C7: on every instance, entry and exit alternate and entry comes first: entry
\* is never called on an instance that is entered and not exited, and exit is
\* only called on an instance that is entered and not exited.
C7_EntryExitAlternate ==
    [][\A i \in DOMAIN calls' :
          /\ calls'[i].k = "entry" =>
                 PhaseAt(heap, calls', calls'[i].obj, i - 1) # "entered"
          /\ calls'[i].k = "exit" =>
                 PhaseAt(heap, calls', calls'[i].obj, i - 1) = "entered"]_vars

\* C8: an entered instance that stops being the current state of its engine,
\* in a transition, a destruction or as the target of a move assignment, gets
\* exit exactly once in that operation; and when no engine is left, no instance
\* is left entered and not exited.
C8_ExitOnCeasing ==
    [][/\ \A o \in ObjIds :
              (/\ heap[o].st = "live"
               /\ heap[o].phase = "entered"
               /\ IsCurrent(sm, o)
               /\ ~IsCurrent(sm', o))
              => CountOn(calls', "exit", o) = 1
       /\ (\A e \in Engines : sm'[e].st = "none") =>
              \A o \in ObjIds : ~(heap'[o].st = "live" /\ heap'[o].phase = "entered")]_vars

\* C9: between operations, every engine that holds a state holds exactly one
\* live instance, which is entered and not exited, and these are the only
\* instances entered and not exited; the state an engine held when it was
\* destroyed is not among them.
C9_CurrentIsTheEntered ==
    /\ \A e \in Engines :
           (sm[e].st = "alive" /\ ~sm[e].moved) =>
               /\ sm[e].state_ # 0
               /\ heap[sm[e].state_].st = "live"
               /\ heap[sm[e].state_].phase = "entered"
    /\ \A o \in ObjIds :
           (heap[o].st = "live" /\ heap[o].phase = "entered") => IsCurrent(sm, o)
    /\ (op.kind = "destroy" /\ op.cur # 0) =>
           ~(heap[op.cur].st = "live" /\ heap[op.cur].phase = "entered")

\* The example's table: the state after event ev in state T, and what is to be
\* seen of the dispatch, the hook calls and the calls on the Context.
TableNext(T, ev) ==
    IF T = "Locked" /\ ev = "CoinInserted" THEN "Unlocked"
    ELSE IF T = "Unlocked" /\ ev = "ArmPushed" THEN "Locked"
    ELSE T
TableSeen(T, ev) ==
    IF T = "Locked" /\ ev = "CoinInserted"
    THEN << <<"handle", "Locked", ev>>, <<"exit", "Locked", "-">>,
            <<"entry", "Unlocked", "-">>, <<"context", "Unlocked", "unlock_arm">> >>
    ELSE IF T = "Unlocked" /\ ev = "ArmPushed"
    THEN << <<"handle", "Unlocked", ev>>, <<"exit", "Unlocked", "-">>,
            <<"entry", "Locked", "-">>, <<"context", "Locked", "lock_arm">> >>
    ELSE IF T = "Locked"
    THEN << <<"handle", "Locked", ev>>, <<"context", "Locked", "beep">> >>
    ELSE << <<"handle", "Unlocked", ev>> >>
IsSeen(c) == c.k \in {"handle", "exit", "entry", "context"}
Seen(log) ==
    [i \in DOMAIN SelectSeq(log, IsSeen) |->
        <<SelectSeq(log, IsSeen)[i].k, SelectSeq(log, IsSeen)[i].type,
          SelectSeq(log, IsSeen)[i].arg>>]

\* C10: the turnstile starts Locked and follows its table on every event:
\* Locked goes to Unlocked on CoinInserted, with Locked.exit and then
\* Unlocked.entry; Unlocked goes to Locked on ArmPushed, with Unlocked.exit and
\* then Locked.entry; ArmPushed in Locked only beeps; CoinInserted in Unlocked
\* calls no hook and nothing on the context; neither of the last two changes
\* the state.
C10_TurnstileTable ==
    [][/\ op'.kind = "construct" =>
              /\ heap'[sm'[op'.eng].state_].type = "Locked"
              /\ Seen(calls') = << <<"entry", "Locked", "-">>,
                                   <<"context", "Locked", "lock_arm">> >>
       /\ op'.kind = "dispatch" =>
              /\ heap'[sm'[op'.eng].state_].type = TableNext(heap[op'.cur].type, op'.ev)
              /\ Seen(calls') = TableSeen(heap[op'.cur].type, op'.ev)
              /\ (TableNext(heap[op'.cur].type, op'.ev) = heap[op'.cur].type
                     => sm'[op'.eng].state_ = op'.cur)]_vars

\* C10's case: ArmPushed has taken an unlocked turnstile back to Locked.
C10_Witness ==
    /\ op.kind = "dispatch"
    /\ op.ev = "ArmPushed"
    /\ heap[sm[op.eng].state_].type = "Locked"
    /\ Kinds(HookCalls(calls)) = <<"handle", "exit", "entry">>

\* The places of the make_state_ptr calls in a log, and the last of them that
\* returned the pointer o.
Makes(log) == {i \in DOMAIN log : log[i].k = "make"}
LastMakeOf(log, o) == Last({i \in Makes(log) : log[i].obj = o})

\* C11: under the static policy every make_state_ptr<T> returns the pointer to
\* the one storage of T, the pointer every earlier request for T returned, and
\* a request for another type returns another pointer; the storage holds the
\* value of the latest request, which is what the earlier pointers show.
C11_StaticAliasing ==
    [][policy = "static" =>
          \A i \in Makes(calls') :
              /\ \A o \in ObjIds :
                     heap[o].st = "live" =>
                         (heap[o].type = calls'[i].type <=> o = calls'[i].obj)
              /\ \A j \in Makes(calls') :
                     calls'[j].type = calls'[i].type <=> calls'[j].obj = calls'[i].obj
              /\ heap'[calls'[i].obj].st = "live"
              /\ heap'[calls'[i].obj].type = calls'[i].type
              /\ heap'[calls'[i].obj].val = calls'[LastMakeOf(calls', calls'[i].obj)].arg]_vars

\* C11's case: under the static policy one handler requested the same type
\* twice with different arguments; both pointers are the same, and the storage
\* holds the second value.
C11_Witness ==
    /\ policy = "static"
    /\ \E i, j \in Makes(calls) :
          /\ i < j
          /\ calls[i].type = calls[j].type
          /\ calls[i].arg # calls[j].arg
          /\ calls[i].obj = calls[j].obj
          /\ heap[calls[i].obj].val = calls[j].arg

\* C12: when no entry or exit hook requests a transition, the pending slot of
\* every instance is empty whenever no dispatch is running, and the state a
\* dispatch installs is the one its own handler requested last: react never
\* returns what an earlier handle call had requested.
C12_SlotEmptyBetweenDispatches ==
    /\ \A o \in ObjIds : heap[o].st = "live" => heap[o].next_state_ = 0
    /\ \A i \in DOMAIN calls :
           calls[i].k = "assign" =>
               /\ calls[i].arg = "handle"
               /\ HandlerRequests(calls) # {}
               /\ calls[i].obj = calls[Last(HandlerRequests(calls))].obj

\* C12's case: the handler of a static state has made a request, the dispatch
\* has returned, and the slot of the instance that made it is empty again.
C12_Witness ==
    /\ policy = "static"
    /\ op.kind = "dispatch"
    /\ HandlerRequests(calls) # {}
    /\ heap[op.cur].st = "live"
    /\ heap[op.cur].next_state_ = 0
    /\ sm[op.eng].state_ # op.cur

\* The places in a log where an entry hook called request_transition.
EntryRequests(log) ==
    {i \in Makes(log) : \E j \in 1..i : log[j].k = "entry"}

\* C13 as stated: a state requested by an entry hook is never installed, not
\* by the operation that ran the entry and not by a later dispatch whose
\* handler requests nothing.
C13_AsStated ==
    /\ \A i \in DOMAIN calls :
           calls[i].k = "entry" => sm[op.eng].state_ = calls[i].obj
    /\ (op.kind = "dispatch" /\ HandlerRequests(calls) = {}) =>
           \A i \in DOMAIN calls : calls[i].k = "assign" => calls[i].arg # "entry"

\* C13, amended: the operation that runs an entry hook does not install what
\* the hook requested: it returns with the entered state current and the
\* request in that state's pending slot.  The request is not dropped: the next
\* dispatch whose handler requests nothing takes it from the slot and installs
\* it, with exit on the current state and entry on the requested one.
C13_EntryRequestDeferred ==
    [][/\ \A i \in DOMAIN calls' :
              calls'[i].k = "entry" =>
                  /\ sm'[op'.eng].state_ = calls'[i].obj
                  /\ \A j \in DOMAIN calls' : j > i => calls'[j].k # "assign"
                  /\ EntryRequests(calls') # {} =>
                         /\ heap'[calls'[i].obj].next_state_ =
                                calls'[Last(EntryRequests(calls'))].obj
                         /\ heap'[calls'[i].obj].by = "entry"
       /\ (/\ op'.kind = "dispatch"
           /\ HandlerRequests(calls') = {}
           /\ heap[op'.cur].by = "entry")
          => /\ Kinds(Steps(calls')) = <<"handle", "exit", "assign", "entry">>
             /\ Steps(calls')[3].obj = heap[op'.cur].next_state_
             /\ Steps(calls')[3].arg = "entry"
             /\ sm'[op'.eng].state_ = heap[op'.cur].next_state_]_vars

\* C13's case: a dispatch whose handler requested nothing has installed the
\* state that an entry hook had requested.
C13_Witness ==
    /\ op.kind = "dispatch"
    /\ HandlerRequests(calls) = {}
    /\ \E i \in DOMAIN calls :
          /\ calls[i].k = "assign"
          /\ calls[i].arg = "entry"
          /\ sm[op.eng].state_ = calls[i].obj

\* The places in a log where an exit hook called request_transition: after the
\* exit call and before state_ is assigned (or the engine is gone).
ExitRequests(log) ==
    {i \in Makes(log) :
        /\ \E j \in 1..i : log[j].k = "exit"
        /\ \A j \in 1..i : log[j].k # "assign"}

\* C14 as stated: a state requested by an exit hook is never installed, by no
\* dispatch, and a dispatch whose handler requested a state installs that one.
C14_AsStated ==
    /\ \A i \in DOMAIN calls : calls[i].k = "assign" => calls[i].arg # "exit"
    /\ (op.kind = "dispatch" /\ HandlerRequests(calls) # {}) =>
           sm[op.eng].state_ = calls[Last(HandlerRequests(calls))].obj

\* C14, amended: a dispatch whose handler requested a state installs the
\* instance the handler requested, whatever exit requests.  What exit requested
\* is dropped under the unique policy, where it is destroyed with the exited
\* state in the same operation, and under the static policy when another
\* instance becomes current.  Under the static policy, when the handler
\* requested the type of the current state itself, the exited instance stays
\* current and keeps the request of its exit hook in its pending slot (unless
\* its entry hook replaces it), and only such a request is ever installed
\* later.
C14_ExitRequestDropped ==
    [][/\ (op'.kind = "dispatch" /\ HandlerRequests(calls') # {}) =>
              sm'[op'.eng].state_ = calls'[Last(HandlerRequests(calls'))].obj
       /\ policy = "unique" =>
              \A i \in ExitRequests(calls') :
                  \E j \in DOMAIN calls' :
                      j > i /\ calls'[j].k = "destroy" /\ calls'[j].obj = calls'[i].obj
       /\ \A e \in Engines :
              (/\ op'.kind # "none"
               /\ sm'[e].st = "alive"
               /\ heap'[sm'[e].state_].by = "exit") =>
                  /\ policy = "static"
                  /\ op'.kind = "dispatch"
                  /\ op'.eng = e
                  /\ sm'[e].state_ = op'.cur
                  /\ ExitRequests(calls') # {}
       /\ (/\ policy = "static"
           /\ op'.kind = "dispatch"
           /\ sm'[op'.eng].state_ = op'.cur
           /\ ExitRequests(calls') # {}
           /\ EntryRequests(calls') = {})
          => /\ heap'[op'.cur].next_state_ = calls'[Last(ExitRequests(calls'))].obj
             /\ heap'[op'.cur].by = "exit"
       /\ \A i \in DOMAIN calls' :
              (calls'[i].k = "assign" /\ calls'[i].arg = "exit") =>
                  /\ policy = "static"
                  /\ heap[op'.cur].by = "exit"]_vars

\* C14's case: under the static policy a dispatch has installed the state that
\* the exit hook of an earlier self-transition had requested.
C14_Witness ==
    /\ policy = "static"
    /\ op.kind = "dispatch"
    /\ \E i \in DOMAIN calls :
          /\ calls[i].k = "assign"
          /\ calls[i].arg = "exit"
          /\ sm[op.eng].state_ = calls[i].obj

\* Whether o holds a live instance after place i of the log of an operation
\* that started with the heap h.
RECURSIVE LiveAt(_, _, _, _)
LiveAt(h, log, o, i) ==
    IF i = 0 THEN h[o].st = "live"
    ELSE IF log[i].obj = o /\ log[i].k = "make" THEN TRUE
    ELSE IF log[i].obj = o /\ log[i].k = "destroy" THEN FALSE
    ELSE LiveAt(h, log, o, i - 1)

\* C15: under the unique policy every make_state_ptr returns an instance that
\* was not live before; a dispatch that replaces the current state destroys it
\* once, after its exit and before the entry of the new state; every hook call
\* is on a live instance; and after every operation the engines that hold a
\* state hold one live instance each, no two the same, and nothing else is
\* live.
C15_UniqueFreshAndDestroyed ==
    [][policy = "unique" =>
          /\ \A i \in Makes(calls') : ~LiveAt(heap, calls', calls'[i].obj, i - 1)
          /\ \A i \in DOMAIN calls' :
                 IsHook(calls'[i]) => LiveAt(heap, calls', calls'[i].obj, i - 1)
          /\ (op'.kind = "dispatch" /\ Count(calls', "assign") = 1) =>
                 /\ CountOn(calls', "destroy", op'.cur) = 1
                 /\ \E x, d, n \in DOMAIN calls' :
                        /\ x < d /\ d < n
                        /\ calls'[x].k = "exit" /\ calls'[x].obj = op'.cur
                        /\ calls'[d].k = "destroy" /\ calls'[d].obj = op'.cur
                        /\ calls'[n].k = "entry" /\ calls'[n].obj = sm'[op'.eng].state_
                 /\ heap'[sm'[op'.eng].state_].st = "live"
          /\ \A e \in Engines :
                 (sm'[e].st = "alive" /\ ~sm'[e].moved) =>
                     /\ sm'[e].state_ # 0
                     /\ heap'[sm'[e].state_].st = "live"
                     /\ \A f \in Engines \ {e} :
                            sm'[f].st = "alive" => sm'[f].state_ # sm'[e].state_
          /\ \A o \in ObjIds : heap'[o].st = "live" => IsCurrent(sm', o)]_vars

\* C15's case: under the unique policy a dispatch has made the requested
\* state, exited the current one, destroyed it and entered the new one, while
\* another engine holds a state of its own.
C15_Witness ==
    /\ policy = "unique"
    /\ op.kind = "dispatch"
    /\ Kinds(calls) = <<"handle", "make", "exit", "assign", "destroy", "entry">>
    /\ \E f \in Engines \ {op.eng} : sm[f].st = "alive" /\ sm[f].state_ # 0

\* The handler's requests for the concrete type T.
HandlerRequestsFor(log, T) == {i \in HandlerRequests(log) : log[i].type = T}

\* C16: under the static policy, when the handler of the current state, of
\* type T, requests T, the request returns the pointer to the current instance
\* and overwrites it within the handle call: exit is called on it with the
\* value of the handler's latest request for T.  When T is what the handler
\* requested last, react returns the current pointer, and exit and entry both
\* run on that one storage, which stays current.
C16_StaticSelfTransition ==
    [][(/\ policy = "static"
        /\ op'.kind = "dispatch"
        /\ HandlerRequestsFor(calls', heap[op'.cur].type) # {})
       => /\ \A i \in HandlerRequestsFor(calls', heap[op'.cur].type) :
                 calls'[i].obj = op'.cur
          /\ \A i \in DOMAIN calls' :
                 calls'[i].k = "exit" =>
                     /\ calls'[i].obj = op'.cur
                     /\ calls'[i].val =
                            calls'[Last(HandlerRequestsFor(calls', heap[op'.cur].type))].arg
          /\ Count(calls', "exit") = 1
          /\ calls'[Last(HandlerRequests(calls'))].type = heap[op'.cur].type =>
                 /\ Kinds(Steps(calls')) = <<"handle", "exit", "assign", "entry">>
                 /\ Objs(Steps(calls')) = <<op'.cur, op'.cur, op'.cur, op'.cur>>
                 /\ Steps(calls')[4].val = calls'[Last(HandlerRequests(calls'))].arg
                 /\ sm'[op'.eng].state_ = op'.cur]_vars

\* C16's case: a static state requested its own type with another value than
\* it held when handle was called; exit and entry ran on it with the new value.
C16_Witness ==
    /\ policy = "static"
    /\ op.kind = "dispatch"
    /\ Kinds(calls) = <<"handle", "make", "exit", "assign", "entry">>
    /\ calls[2].obj = op.cur
    /\ calls[1].val # calls[3].val
    /\ calls[3].val = calls[2].arg
    /\ calls[5].obj = op.cur

\* C17: whatever the hooks request, a dispatch calls handle once, exit at most
\* once and entry at most once, assigns state_ at most once, and does nothing
\* after the entry of the state it installed but let that hook run: what the
\* entry requested is not installed by this dispatch, which returns with the
\* entered state current.
C17_OneTransitionPerDispatch ==
    op.kind = "dispatch" =>
        /\ Count(calls, "handle") = 1
        /\ Count(calls, "exit") <= 1
        /\ Count(calls, "entry") <= 1
        /\ Count(calls, "assign") <= 1
        /\ Count(calls, "exit") = Count(calls, "entry")
        /\ \A i \in DOMAIN calls :
               calls[i].k = "entry" =>
                   /\ sm[op.eng].state_ = calls[i].obj
                   /\ \A j \in DOMAIN calls : j > i => calls[j].k = "make" \/ calls[j].k = "destroy"

\* C17's case: the entry hook of the state a dispatch installed has requested
\* a transition, and the dispatch has returned with the entered state current.
C17_Witness ==
    /\ op.kind = "dispatch"
    /\ EntryRequests(calls) # {}
    /\ Count(calls, "entry") = 1
    /\ heap[sm[op.eng].state_].next_state_ # 0
    /\ heap[sm[op.eng].state_].by = "entry"

\* ------------------------------------------- the two policies side by side

\* One application built twice, with StaticStateAllocator (heap, sm, calls) and
\* with UniqueStateAllocator (twin), and given the same operations in both
\* builds.  Its handlers pass constructor arguments and never request the
\* concrete type of the current state; its entry and exit hooks may request
\* any state.  twin.hooked records whether an entry or exit hook has called
\* request_transition so far.  The comparison ends with the first operation
\* whose hook calls differ between the builds.
TwinStart ==
    [h |-> twin.h, log |-> <<>>, p |-> 0, pby |-> "none", pol |-> "unique",
     c |-> InitialContext]

HookRequested(log) == EntryRequests(log) \cup ExitRequests(log) # {}

\* The hook calls of a log: which hook, on a state of which concrete type,
\* constructed with which arguments, and for handle with which event.
Obs(log) ==
    [i \in DOMAIN HookCalls(log) |->
        <<HookCalls(log)[i].k, HookCalls(log)[i].type, HookCalls(log)[i].val,
          HookCalls(log)[i].arg>>]

InitPair ==
    /\ policy = "static"
    /\ heap = [o \in ObjIds |-> Free]
    /\ sm = [e \in Engines |-> NoEngine]
    /\ calls = <<>>
    /\ op = Idle
    /\ twin = [h |-> [o \in ObjIds |-> Free], state_ |-> 0, log |-> <<>>, hooked |-> FALSE]

\* The operation ends in both builds: m is what it did with the static
\* policy, t with the unique policy, where the engine's state_ is now tstate.
PairReturns(m, t, engines, tstate, o) ==
    /\ heap' = m.h
    /\ calls' = m.log
    /\ sm' = engines
    /\ op' = o
    /\ twin' = [h |-> t.h, state_ |-> tstate, log |-> t.log,
                hooked |-> twin.hooked \/ HookRequested(m.log) \/ HookRequested(t.log)]
    /\ UNCHANGED policy

PairConstructed(m, t) ==
    PairReturns(m, t, [sm EXCEPT ![1] = [st |-> "alive", state_ |-> m.p, moved |-> FALSE,
                                         context_ |-> m.c]],
                t.p, Op("construct", 1, "-", 0))

PairConstruct ==
    \E T \in Types, bn \in HookBehaviours :
        /\ op = Idle
        /\ sm[1].st = "none"
        /\ PairConstructed(constructor(Start, 1, T, App(Nothing, Nothing, bn)),
                           constructor(TwinStart, 1, T, App(Nothing, Nothing, bn)))

PairDispatched(m, t, ev) ==
    PairReturns(m, t, [sm EXCEPT ![1].state_ = m.p, ![1].context_ = m.c], t.p,
                Op("dispatch", 1, ev, 0))

PairDispatch ==
    \E ev \in Events, bh \in ValuedBehaviours, bx, bn \in HookBehaviours :
        /\ op = Idle
        /\ sm[1].st = "alive"
        /\ twin.state_ # 0
        /\ \A i \in DOMAIN bh.reqs :
               /\ bh.reqs[i].type # heap[sm[1].state_].type
               /\ bh.reqs[i].type # twin.h[twin.state_].type
        /\ PairDispatched(dispatch(Start, 1, sm[1].state_, ev, App(bh, bx, bn)),
                          dispatch(TwinStart, 1, twin.state_, ev, App(bh, bx, bn)), ev)

PairDestroy ==
    \E bx \in HookBehaviours :
        /\ op = Idle
        /\ sm[1].st = "alive"
        /\ PairReturns(destructor(Start, 1, sm[1].state_, App(Nothing, bx, Nothing)),
                       destructor(TwinStart, 1, twin.state_, App(Nothing, bx, Nothing)),
                       [sm EXCEPT ![1] = NoEngine], 0, Op("destroy", 1, "-", 0))

\* The operation returns to its caller, in both builds.
PairReturn ==
    /\ op # Idle
    /\ Obs(calls) = Obs(twin.log)
    /\ op' = Idle
    /\ calls' = <<>>
    /\ twin' = [twin EXCEPT !.log = <<>>]
    /\ UNCHANGED <<policy, heap, sm>>

NextPair == PairConstruct \/ PairDispatch \/ PairDestroy \/ PairReturn

SpecPair == InitPair /\ [][NextPair]_vars

\* Both builds made the same hook calls in the operation, and hold a current
\* state of the same concrete type.
SameObservation ==
    /\ Obs(calls) = Obs(twin.log)
    /\ (sm[1].st = "alive") = (twin.state_ # 0)
    /\ sm[1].st = "alive" => heap[sm[1].state_].type = twin.h[twin.state_].type

\* C18 as stated: on one engine whose handlers never request the concrete type
\* of the current state, every operation makes the same hook calls (hook,
\* concrete type, constructor arguments) under the static and under the unique
\* policy, and the current state has the same type afterwards.
C18_AsStated ==
    op.kind # "none" => SameObservation

\* C18, amended: on one engine whose handlers never request the concrete type
\* of the current state and whose entry and exit hooks never call
\* request_transition, every operation makes the same hook calls (hook,
\* concrete type, constructor arguments) under the static and under the unique
\* policy, and the current state has the same type afterwards.
C18_PoliciesEquivalent ==
    (op.kind # "none" /\ ~twin.hooked) => SameObservation

\* C18's case: no hook has requested a transition, and in both builds a
\* dispatch has gone on to a state constructed with another argument than the
\* default.
C18_Witness ==
    /\ ~twin.hooked
    /\ op.kind = "dispatch"
    /\ Len(Obs(calls)) = 3
    /\ Obs(calls)[3][1] = "entry"
    /\ Obs(calls)[3][3] # DefaultArg
    /\ Obs(twin.log) = Obs(calls)
    /\ Cardinality(HandlerRequests(calls)) = 2

\* ------------------------------------------------------------ the context

\* The places in an operation's log where the Context is used: the hook calls
\* and the calls the hooks make on the Context.
ContextUses(log) == {i \in DOMAIN log : log[i].k \in {"entry", "handle", "exit", "context"}}
\* The value of the context before the i-th entry of the log: what the last
\* use before it left, or c0 when there is none.
ValueBefore(log, i, c0) ==
    IF {j \in ContextUses(log) : j < i} = {} THEN c0
    ELSE log[Last({j \in ContextUses(log) : j < i})].ctx
\* The value of the context after the operation.
ValueAfter(log, c0) ==
    IF ContextUses(log) = {} THEN c0 ELSE log[Last(ContextUses(log))].ctx

\* C19: every entry, exit and handle call an engine makes is given that
\* engine's own context; the value a hook sees is the value the previous hook
\* call of the engine left (the constructor's argument for the first entry),
\* whether the dispatches change state or not, and no operation on an engine
\* changes the context of another engine.
C19_ContextFrame ==
    [][op'.kind \in {"construct", "dispatch", "destroy"} =>
        /\ \A i \in DOMAIN calls' :
              IsHook(calls'[i]) =>
                /\ calls'[i].eng = op'.eng
                /\ calls'[i].ctx = ValueBefore(calls', i, op'.ctx)
        /\ op'.kind = "construct" => sm'[op'.eng].context_ = ValueAfter(calls', op'.ctx)
        /\ op'.kind = "dispatch" =>
              /\ op'.ctx = sm[op'.eng].context_
              /\ sm'[op'.eng].context_ = ValueAfter(calls', op'.ctx)
        /\ \A e \in Engines \ {op'.eng} : sm'[e].context_ = sm[e].context_]_vars

\* C19's case: a dispatch has changed state on an engine whose context an
\* earlier hook call had changed, its exit hook has changed the context again
\* and its entry hook has seen that value, while another engine holds a
\* different context.
C19_Witness ==
    /\ op.kind = "dispatch"
    /\ op.ctx # InitialContext
    /\ Kinds(HookCalls(calls)) = <<"handle", "exit", "entry">>
    /\ HookCalls(calls)[2].ctx # HookCalls(calls)[3].ctx
    /\ HookCalls(calls)[3].ctx # op.ctx
    /\ \E e \in Engines \ {op.eng} :
          sm[e].st = "alive" /\ sm[e].context_ # sm[op.eng].context_

\* ------------------------------------------------------ replaced requests

\* The handler's requests that a later request of the same handle call
\* replaced, and the request that replaced the i-th.
Replaced(log) == {i \in HandlerRequests(log) : \E j \in HandlerRequests(log) : j > i}
NextRequest(log, i) == First({j \in HandlerRequests(log) : j > i})
\* The hook calls on the instance o after the i-th entry of the log.
HooksAfter(log, o, i) == {k \in DOMAIN log : k > i /\ IsHook(log[k]) /\ log[k].obj = o}
\* The instance is destroyed at the moment the next request is stored: right
\* after the make_state_ptr of that request, with no hook call on it before.
DestroyedWhenReplaced(log, i) ==
    /\ NextRequest(log, i) + 1 \in DOMAIN log
    /\ log[NextRequest(log, i) + 1].k = "destroy"
    /\ log[NextRequest(log, i) + 1].obj = log[i].obj
    /\ \A k \in HooksAfter(log, log[i].obj, i) : k > NextRequest(log, i) + 1
\* The only live instance is the state_ of the one engine.
OnlyInstalledLive(h, engines, e) ==
    \A o \in ObjIds : h[o].st = "live" <=> o = engines[e].state_

\* C20 as stated: an instance that a handler requested and that a later
\* request of the same handle call replaced by another instance receives no
\* hook call; under the unique policy it is destroyed when the later request is
\* stored, and after the dispatch the installed instance is the only live one.
C20_AsStated ==
    [][op'.kind = "dispatch" =>
        /\ \A i \in Replaced(calls') :
              calls'[i].obj # calls'[NextRequest(calls', i)].obj =>
                /\ policy = "static" => HooksAfter(calls', calls'[i].obj, i) = {}
                /\ policy = "unique" => DestroyedWhenReplaced(calls', i)
        /\ (policy = "unique" /\ Replaced(calls') # {}) =>
              OnlyInstalledLive(heap', sm', op'.eng)]_vars

\* C20, amended: under the unique policy an instance that a handler requested
\* and that a later request of the same handle call replaced receives no hook
\* call: it is destroyed when the later request is stored, and after a
\* dispatch whose entry hook requests nothing the installed instance is the
\* only live one.  Under the static policy the replaced request designates the
\* one instance of its type, and the only hook calls it receives after the
\* request are the exit of the dispatch when it is the current state and the
\* entry of the dispatch when the installed request is of its type.
C20_ReplacedRequest ==
    [][op'.kind = "dispatch" =>
        /\ \A i \in Replaced(calls') :
              /\ policy = "unique" => DestroyedWhenReplaced(calls', i)
              /\ policy = "static" =>
                    \A k \in HooksAfter(calls', calls'[i].obj, i) :
                        \/ calls'[k].k = "exit" /\ calls'[i].obj = op'.cur
                        \/ /\ calls'[k].k = "entry"
                           /\ calls'[i].type = calls'[Last(HandlerRequests(calls'))].type
        /\ (policy = "unique" /\ Replaced(calls') # {} /\ EntryRequests(calls') = {}) =>
              OnlyInstalledLive(heap', sm', op'.eng)]_vars

\* C20's case: under the unique policy a handler has requested two states; the
\* first was destroyed when the second was stored, the second has been
\* entered and is the only live instance.
C20_Witness ==
    /\ policy = "unique"
    /\ op.kind = "dispatch"
    /\ Cardinality(HandlerRequests(calls)) = 2
    /\ DestroyedWhenReplaced(calls, First(HandlerRequests(calls)))
    /\ CountOn(calls, "entry", calls[Last(HandlerRequests(calls))].obj) = 1
    /\ sm[op.eng].state_ = calls[Last(HandlerRequests(calls))].obj
    /\ OnlyInstalledLive(heap, sm, op.eng)

====
